---- MODULE Spec2Model ----
(***************************************************************************)
(* Model of TPS.py: the standings aggregator (the loop over the completed  *)
(* games), the team rate model (get_team_stats), the pairwise probability  *)
(* model (match_probability), the single-game sampler                      *)
(* (simulate_single_game) and the Monte Carlo loop.                        *)
(*                                                                         *)
(* Python floats are modelled as exact rationals <<numerator,denominator>> *)
(* in lowest terms, so every statement about probabilities below is a      *)
(* statement in exact arithmetic.  A dict is modelled as the sequence of   *)
(* its <<key, value>> items in insertion order, which is the order         *)
(* .items() and sorted() see.                                              *)
(***************************************************************************)
EXTENDS Integers, Sequences, FiniteSets

\* ------------------------------------------------------------------ bounds

MaxGames == 2          \* completed games read by the aggregation loop
MaxSeason == 1         \* completed games read before a Monte Carlo run
MaxFuture == 1         \* remaining (unplayed) games
N == 2                 \* Monte Carlo trials (1000000 in the source)
PLAYOFFS_CUTOFF == 2   \* inclusive rank cutoff (12 in the source)
XDen == 10             \* random.random() is drawn from {0/XDen .. (XDen-1)/XDen}

\* ------------------------------------------------------------------ inputs

TPS_TEAMNAME == "TPS"

Teams == {"TPS", "A", "B"}

Matchups == {m \in Teams \X Teams : m[1] # m[2]}

\* (home goals, away goals): a home win, an away win, equal goal counts
Scores == {<<3, 0>>, <<1, 2>>, <<2, 2>>}

\* finishedType values; "" is game.get('finishedType', '') of a record without one
FinishedTypes ==
    {"", "ENDED_DURING_REGULAR_GAME_TIME", "ENDED_DURING_EXTENDED_GAME_TIME",
     "ENDED_DURING_WINNING_SHOT_COMPETITION", "OVERTIME"}

\* the characters of the strings the aggregation loop tests
Chars(s) ==
    CASE s = "" -> << >>
      [] s = "OVERTIME" -> <<"O","V","E","R","T","I","M","E">>
      [] s = "EXTENDED" -> <<"E","X","T","E","N","D","E","D">>
      [] s = "WINNING_SHOT" -> <<"W","I","N","N","I","N","G","_","S","H","O","T">>
      [] s = "ENDED_DURING_REGULAR_GAME_TIME" ->
           <<"E","N","D","E","D","_","D","U","R","I","N","G","_","R","E","G","U","L",
             "A","R","_","G","A","M","E","_","T","I","M","E">>
      [] s = "ENDED_DURING_EXTENDED_GAME_TIME" ->
           <<"E","N","D","E","D","_","D","U","R","I","N","G","_","E","X","T","E","N",
             "D","E","D","_","G","A","M","E","_","T","I","M","E">>
      [] s = "ENDED_DURING_WINNING_SHOT_COMPETITION" ->
           <<"E","N","D","E","D","_","D","U","R","I","N","G","_","W","I","N","N","I",
             "N","G","_","S","H","O","T","_","C","O","M","P","E","T","I","T","I","O","N">>

\* Python's `marker in text` on strings: marker is a contiguous substring of text
StrIn(marker, text) ==
    LET m == Chars(marker)
        t == Chars(text)
    IN  \E i \in 0..(Len(t) - Len(m)) : SubSeq(t, i + 1, i + Len(m)) = m

\* a completed game record, as the aggregation loop reads it (lines 30-34)
AllGames ==
    {[homeTeam |-> m[1], awayTeam |-> m[2], homeGoals |-> s[1], awayGoals |-> s[2],
      finishedType |-> f] : m \in Matchups, s \in Scores, f \in FinishedTypes}

\* the completed games of the sampler and Monte Carlo specifications: every
\* matchup, won by the home side in regulation or in extended play
SeasonGames ==
    {g \in AllGames : /\ g.homeGoals > g.awayGoals
                      /\ g.finishedType \in {"ENDED_DURING_REGULAR_GAME_TIME",
                                             "ENDED_DURING_EXTENDED_GAME_TIME"}}

\* ------------------------------------------------------- exact arithmetic

RECURSIVE Gcd(_, _)
Gcd(a, b) == IF b = 0 THEN a ELSE Gcd(b, a % b)

Abs(a) == IF a < 0 THEN -a ELSE a

\* the rational n/d (d > 0) in lowest terms
Rat(n, d) == LET g == Gcd(Abs(n), d) IN <<n \div g, d \div g>>

RAdd(p, q) == Rat(p[1] * q[2] + q[1] * p[2], p[2] * q[2])
RSub(p, q) == Rat(p[1] * q[2] - q[1] * p[2], p[2] * q[2])
RMul(p, q) == Rat(p[1] * q[1], p[2] * q[2])
\* p / q for q > 0
RDiv(p, q) == Rat(p[1] * q[2], p[2] * q[1])
RLt(p, q) == p[1] * q[2] < q[1] * p[2]
RMax(p, q) == IF RLt(p, q) THEN q ELSE p

Zero == <<0, 1>>
One == <<1, 1>>
Half == <<1, 2>>
ThreeTenths == <<3, 10>>
EpsDen == 1000000000
\* p < 1e-9, i.e. p[1] * EpsDen < p[2], computed without the large product
LtEps(p) == p[1] <= (p[2] - 1) \div EpsDen

\* ------------------------------------------------------------------ dicts

Keys(d) == {d[i][1] : i \in 1..Len(d)}

\* d[k] of a defaultdict(int), read without inserting
Get(d, k) == IF k \in Keys(d) THEN d[CHOOSE i \in 1..Len(d) : d[i][1] = k][2] ELSE 0

\* d[k] += v on a defaultdict(int): a missing key is inserted last
DictAdd(d, k, v) ==
    IF k \in Keys(d)
    THEN [i \in 1..Len(d) |-> IF d[i][1] = k THEN <<k, d[i][2] + v>> ELSE d[i]]
    ELSE Append(d, <<k, v>>)

\* c[k] += 1 on a tally, kept as a function over Teams with 0 for a missing key
Incr(c, k) == [c EXCEPT ![k] = @ + 1]

ZeroTally == [t \in Teams |-> 0]

\* ------------------------------------------------------------------ state

VARIABLES
    pc,                  \* position in the script
    ended_games,         \* the completed games read so far, in reading order
    home_team, away_team,\* the loop variables of lines 30-31 and 186-187
    points,              \* dict team -> points (line 18)
    games_played,        \* line 19
    stats_games,         \* line 21
    stats_reg_win,       \* line 22
    stats_reg_loss,      \* line 23
    stats_ot_so_win,     \* line 24
    stats_ot_so_loss,    \* line 25
    future_games,        \* line 173, as <<home, away>> pairs
    base_points,         \* line 174
    tps_in_top12_count,  \* line 180
    trial,               \* completed iterations of the loop of line 182
    sim_points,          \* line 183
    gi,                  \* index of the next game of the loop of line 185
    x,                   \* the draw of line 154, as the sampler specification records it
    hp, ap,              \* line 189
    prob_tps_in_top12    \* line 203

tallies == <<games_played, stats_games, stats_reg_win, stats_reg_loss,
             stats_ot_so_win, stats_ot_so_loss>>

mc == <<future_games, base_points, tps_in_top12_count, trial, sim_points, gi,
        prob_tps_in_top12>>

vars == <<pc, ended_games, home_team, away_team, points, tallies, mc, x, hp, ap>>

\* ------------------------------------------------------- the aggregator

\* the tables the aggregation loop updates, as one value
Tables ==
    [points |-> points, games_played |-> games_played, stats_games |-> stats_games,
     stats_reg_win |-> stats_reg_win, stats_reg_loss |-> stats_reg_loss,
     stats_ot_so_win |-> stats_ot_so_win, stats_ot_so_loss |-> stats_ot_so_loss]

EmptyTables ==
    [points |-> << >>, games_played |-> ZeroTally, stats_games |-> ZeroTally,
     stats_reg_win |-> ZeroTally, stats_reg_loss |-> ZeroTally,
     stats_ot_so_win |-> ZeroTally, stats_ot_so_loss |-> ZeroTally]

\* lines 43-45
IsOtSo(finished_type) ==
    \/ StrIn("OVERTIME", finished_type)
    \/ StrIn("EXTENDED", finished_type)
    \/ StrIn("WINNING_SHOT", finished_type)

\* lines 36-40
CountGame(T, g) ==
    [T EXCEPT !.stats_games = Incr(Incr(@, g.homeTeam), g.awayTeam),
              !.games_played = Incr(Incr(@, g.homeTeam), g.awayTeam)]

\* a slip: the loser of an overtime/shootout game is given no point
OtSoBranchNoLoserPoint(T, g) ==
    IF g.homeGoals > g.awayGoals
    THEN [T EXCEPT !.points = DictAdd(@, g.homeTeam, 2),
                   !.stats_ot_so_win = Incr(@, g.homeTeam),
                   !.stats_ot_so_loss = Incr(@, g.awayTeam)]
    ELSE [T EXCEPT !.points = DictAdd(@, g.awayTeam, 2),
                   !.stats_ot_so_win = Incr(@, g.awayTeam),
                   !.stats_ot_so_loss = Incr(@, g.homeTeam)]

\* lines 47-56
OtSoBranch(T, g) ==
    IF g.homeGoals > g.awayGoals
    THEN [T EXCEPT !.points = DictAdd(DictAdd(@, g.homeTeam, 2), g.awayTeam, 1),
                   !.stats_ot_so_win = Incr(@, g.homeTeam),
                   !.stats_ot_so_loss = Incr(@, g.awayTeam)]
    ELSE [T EXCEPT !.points = DictAdd(DictAdd(@, g.awayTeam, 2), g.homeTeam, 1),
                   !.stats_ot_so_win = Incr(@, g.awayTeam),
                   !.stats_ot_so_loss = Incr(@, g.homeTeam)]

\* a slip: `else` for `elif home_goals < away_goals`, as in the overtime branch
RegBranchElse(T, g) ==
    IF g.homeGoals > g.awayGoals
    THEN [T EXCEPT !.points = DictAdd(@, g.homeTeam, 3),
                   !.stats_reg_win = Incr(@, g.homeTeam),
                   !.stats_reg_loss = Incr(@, g.awayTeam)]
    ELSE [T EXCEPT !.points = DictAdd(@, g.awayTeam, 3),
                   !.stats_reg_win = Incr(@, g.awayTeam),
                   !.stats_reg_loss = Incr(@, g.homeTeam)]

\* lines 59-70
RegBranch(T, g) ==
    IF g.homeGoals > g.awayGoals
    THEN [T EXCEPT !.points = DictAdd(@, g.homeTeam, 3),
                   !.stats_reg_win = Incr(@, g.homeTeam),
                   !.stats_reg_loss = Incr(@, g.awayTeam)]
    ELSE IF g.homeGoals < g.awayGoals
    THEN [T EXCEPT !.points = DictAdd(@, g.awayTeam, 3),
                   !.stats_reg_win = Incr(@, g.awayTeam),
                   !.stats_reg_loss = Incr(@, g.homeTeam)]
    ELSE T

\* one iteration of the loop of line 29
AggStep(T, g) ==
    IF IsOtSo(g.finishedType)
    THEN OtSoBranch(CountGame(T, g), g)
    ELSE RegBranch(CountGame(T, g), g)

\* the whole loop over a list of completed games
RECURSIVE Aggregate(_)
Aggregate(games) ==
    IF games = << >> THEN EmptyTables
    ELSE AggStep(Aggregate(SubSeq(games, 1, Len(games) - 1)), games[Len(games)])

Init ==
    /\ pc = "aggregate"
    /\ ended_games = << >>
    /\ home_team = "" /\ away_team = ""
    /\ points = << >>
    /\ games_played = ZeroTally /\ stats_games = ZeroTally
    /\ stats_reg_win = ZeroTally /\ stats_reg_loss = ZeroTally
    /\ stats_ot_so_win = ZeroTally /\ stats_ot_so_loss = ZeroTally
    /\ future_games = << >> /\ base_points = << >>
    /\ tps_in_top12_count = 0 /\ trial = 0
    /\ sim_points = << >> /\ gi = 0
    /\ x = Zero /\ hp = 0 /\ ap = 0
    /\ prob_tps_in_top12 = Zero

\* lines 29-70: the loop reads the next completed game, one of `games`, of a list
\* of at most `limit` completed games
AggregateFrom(games, limit) ==
    /\ pc = "aggregate"
    /\ Len(ended_games) < limit
    /\ \E game \in games :
         LET T == AggStep(Tables, game)
         IN  /\ ended_games' = Append(ended_games, game)
             /\ home_team' = game.homeTeam
             /\ away_team' = game.awayTeam
             /\ points' = T.points
             /\ games_played' = T.games_played
             /\ stats_games' = T.stats_games
             /\ stats_reg_win' = T.stats_reg_win
             /\ stats_reg_loss' = T.stats_reg_loss
             /\ stats_ot_so_win' = T.stats_ot_so_win
             /\ stats_ot_so_loss' = T.stats_ot_so_loss
    /\ UNCHANGED <<pc, mc, x, hp, ap>>

\* the aggregation loop over arbitrary completed games
AggregateGame == AggregateFrom(AllGames, MaxGames)

\* the aggregator alone, fed every kind of completed game
SpecAgg == Init /\ [][AggregateGame]_vars

\* ---------------------------------------------------- the probability model

\* a slip: the no-data default gives the rates of a team that never wins
get_team_stats_zero_default(team) ==
    LET gw == stats_games[team]
    IN  IF gw = 0
        THEN <<Zero, Zero, 1>>
        ELSE <<Rat(stats_reg_win[team], gw), Rat(stats_ot_so_win[team], gw), gw>>

\* lines 92-109: (reg_win_rate, ot_so_win_rate, total_games_for_team)
get_team_stats(team) ==
    LET gw == stats_games[team]
    IN  IF gw = 0
        THEN <<Half, Half, 1>>
        ELSE <<Rat(stats_reg_win[team], gw), Rat(stats_ot_so_win[team], gw), gw>>

\* a slip: the OT/SO mass is multiplied by the raw rates, not by their shares
match_probability_raw_split(home, away) ==
    LET reg_home == get_team_stats(home)[1]
        ot_home == get_team_stats(home)[2]
        reg_away == get_team_stats(away)[1]
        ot_away == get_team_stats(away)[2]
        s_reg == RAdd(reg_home, reg_away)
        p_home_reg == IF LtEps(s_reg) THEN ThreeTenths ELSE RDiv(reg_home, s_reg)
        p_away_reg == IF LtEps(s_reg) THEN ThreeTenths ELSE RDiv(reg_away, s_reg)
        p_ot == RMax(Zero, RSub(RSub(One, p_home_reg), p_away_reg))
        s_ot == RAdd(ot_home, ot_away)
        p_home_ot == IF LtEps(s_ot) THEN RMul(p_ot, Half) ELSE RMul(p_ot, ot_home)
        p_away_ot == IF LtEps(s_ot) THEN RMul(p_ot, Half) ELSE RMul(p_ot, ot_away)
    IN  <<p_home_reg, p_away_reg, p_home_ot, p_away_ot>>

\* a slip: the regulation rates are averaged instead of normalised by their sum,
\* which leaves the docstring's "leftover probability" for OT/SO
match_probability_averaged(home, away) ==
    LET reg_home == get_team_stats(home)[1]
        ot_home == get_team_stats(home)[2]
        reg_away == get_team_stats(away)[1]
        ot_away == get_team_stats(away)[2]
        s_reg == RAdd(reg_home, reg_away)
        p_home_reg == IF LtEps(s_reg) THEN ThreeTenths ELSE RMul(reg_home, Half)
        p_away_reg == IF LtEps(s_reg) THEN ThreeTenths ELSE RMul(reg_away, Half)
        p_ot == RMax(Zero, RSub(RSub(One, p_home_reg), p_away_reg))
        s_ot == RAdd(ot_home, ot_away)
        p_home_ot == IF LtEps(s_ot) THEN RMul(p_ot, Half)
                     ELSE RMul(p_ot, RDiv(ot_home, s_ot))
        p_away_ot == IF LtEps(s_ot) THEN RMul(p_ot, Half)
                     ELSE RMul(p_ot, RDiv(ot_away, s_ot))
    IN  <<p_home_reg, p_away_reg, p_home_ot, p_away_ot>>

\* lines 111-145: (p_home_reg, p_away_reg, p_home_ot, p_away_ot)
match_probability(home, away) ==
    LET reg_home == get_team_stats(home)[1]
        ot_home == get_team_stats(home)[2]
        reg_away == get_team_stats(away)[1]
        ot_away == get_team_stats(away)[2]
        s_reg == RAdd(reg_home, reg_away)
        p_home_reg == IF LtEps(s_reg) THEN ThreeTenths ELSE RDiv(reg_home, s_reg)
        p_away_reg == IF LtEps(s_reg) THEN ThreeTenths ELSE RDiv(reg_away, s_reg)
        p_ot == RMax(Zero, RSub(RSub(One, p_home_reg), p_away_reg))
        s_ot == RAdd(ot_home, ot_away)
        p_home_ot == IF LtEps(s_ot) THEN RMul(p_ot, Half)
                     ELSE RMul(p_ot, RDiv(ot_home, s_ot))
        p_away_ot == IF LtEps(s_ot) THEN RMul(p_ot, Half)
                     ELSE RMul(p_ot, RDiv(ot_away, s_ot))
    IN  <<p_home_reg, p_away_reg, p_home_ot, p_away_ot>>

\* a slip: the second `x -= ...` (line 163) is left out
simulate_single_game_one_subtraction(home, away, u) ==
    LET P == match_probability(home, away)
        x1 == RSub(u, P[1])
    IN  IF RLt(u, P[1]) THEN <<3, 0>>
        ELSE IF RLt(x1, P[2]) THEN <<0, 3>>
        ELSE IF RLt(x1, P[3]) THEN <<2, 1>>
        ELSE <<1, 2>>

\* lines 147-170, with u the value random.random() returns at line 154
simulate_single_game(home, away, u) ==
    LET P == match_probability(home, away)
        x1 == RSub(u, P[1])
        x2 == RSub(x1, P[2])
    IN  IF RLt(u, P[1]) THEN <<3, 0>>
        ELSE IF RLt(x1, P[2]) THEN <<0, 3>>
        ELSE IF RLt(x2, P[3]) THEN <<2, 1>>
        ELSE <<1, 2>>

\* line 154: the values random.random() is drawn from, all in [0, 1)
Draws == {Rat(k, XDen) : k \in 0..(XDen - 1)}

\* the aggregation loop over the completed games of a season
AggregateSeason == AggregateFrom(SeasonGames, MaxGames)

\* one call simulate_single_game(home, away) after the statistical phase, for any
\* two teams and any draw; the draw and the returned award are recorded
SampleGame ==
    /\ pc = "aggregate"
    /\ \E m \in Matchups, u \in Draws :
         LET award == simulate_single_game(m[1], m[2], u)
         IN  /\ home_team' = m[1] /\ away_team' = m[2]
             /\ x' = u
             /\ hp' = award[1] /\ ap' = award[2]
    /\ pc' = "sampled"
    /\ UNCHANGED <<ended_games, points, tallies, mc>>

\* the statistical phase followed by one call of the sampler
SpecSampler == Init /\ [][AggregateSeason \/ SampleGame]_vars

\* --------------------------------------------------- the final ranking

\* 1-based position of item i of dict d in sorted(d.items(), key=points, reverse=True):
\* Python's sort is stable, also with reverse=True, so equal points keep dict order
RankAt(d, i) ==
    1 + Cardinality({j \in 1..Len(d) : \/ d[j][2] > d[i][2]
                                        \/ (d[j][2] = d[i][2] /\ j < i)})

\* line 194
FinalStanding(d) ==
    [r \in 1..Len(d) |-> d[CHOOSE i \in 1..Len(d) : RankAt(d, i) = r]]

\* ------------------------------------------------- the Monte Carlo loop

\* the lists of at most n remaining games
FutureLists(n) == UNION {[1..k -> Matchups] : k \in 0..n}

\* lines 173-180: the remaining games are read and the baseline is copied
CreateBaseline ==
    /\ pc = "aggregate"
    /\ future_games' \in FutureLists(MaxFuture)
    /\ base_points' = points
    /\ tps_in_top12_count' = 0
    /\ trial' = 0
    /\ pc' = "trials"
    /\ UNCHANGED <<ended_games, home_team, away_team, points, tallies,
                   sim_points, gi, prob_tps_in_top12, x, hp, ap>>

\* lines 182-183: a trial starts on a deep copy of the baseline
StartTrial ==
    /\ pc = "trials"
    /\ trial < N
    /\ sim_points' = base_points
    /\ gi' = 1
    /\ pc' = "games"
    /\ UNCHANGED <<ended_games, home_team, away_team, points, tallies, future_games,
                   base_points, tps_in_top12_count, trial, prob_tps_in_top12, x, hp, ap>>

\* a slip: `sim_points = base_points` without the copy, so that the two names
\* are one dict and lines 190-191 write to the baseline as well
SimulateGameAliased ==
    /\ pc = "games"
    /\ gi <= Len(future_games)
    /\ \E u \in Draws :
         LET home == future_games[gi][1]
             away == future_games[gi][2]
             award == simulate_single_game(home, away, u)
         IN  /\ home_team' = home /\ away_team' = away
             /\ hp' = award[1] /\ ap' = award[2]
             /\ sim_points' = DictAdd(DictAdd(sim_points, home, award[1]), away, award[2])
             /\ base_points' = sim_points'
    /\ gi' = gi + 1
    /\ UNCHANGED <<pc, ended_games, points, tallies, future_games,
                   tps_in_top12_count, trial, prob_tps_in_top12, x>>

\* lines 185-191: the next remaining game is sampled and its award added to the copy
SimulateGame ==
    /\ pc = "games"
    /\ gi <= Len(future_games)
    /\ \E u \in Draws :
         LET home == future_games[gi][1]
             away == future_games[gi][2]
             award == simulate_single_game(home, away, u)
         IN  /\ home_team' = home /\ away_team' = away
             /\ hp' = award[1] /\ ap' = award[2]
             /\ sim_points' = DictAdd(DictAdd(sim_points, home, award[1]), away, award[2])
    /\ gi' = gi + 1
    /\ UNCHANGED <<pc, ended_games, points, tallies, future_games, base_points,
                   tps_in_top12_count, trial, prob_tps_in_top12, x>>

\* lines 196-201: 1 when the target is found in the standing at a rank within the
\* cutoff, 0 when it is found below the cutoff or is not in the standing at all
TopCount(final_standing) ==
    IF \E rank \in 1..Len(final_standing) :
           final_standing[rank][1] = TPS_TEAMNAME /\ rank <= PLAYOFFS_CUTOFF
    THEN 1 ELSE 0

\* lines 193-201: the trial's standing is sorted and the target's rank tested
RankTrial ==
    /\ pc = "games"
    /\ gi > Len(future_games)
    /\ tps_in_top12_count' = tps_in_top12_count + TopCount(FinalStanding(sim_points))
    /\ trial' = trial + 1
    /\ pc' = "trials"
    /\ UNCHANGED <<ended_games, home_team, away_team, points, tallies, future_games,
                   base_points, sim_points, gi, prob_tps_in_top12, x, hp, ap>>

\* line 203
Report ==
    /\ pc = "trials"
    /\ trial = N
    /\ prob_tps_in_top12' = Rat(tps_in_top12_count, N)
    /\ pc' = "done"
    /\ UNCHANGED <<ended_games, home_team, away_team, points, tallies, future_games,
                   base_points, tps_in_top12_count, trial, sim_points, gi, x, hp, ap>>

\* the aggregation loop over the completed games that precede a Monte Carlo run
AggregateEnded == AggregateFrom(SeasonGames, MaxSeason)

Next ==
    \/ AggregateEnded
    \/ CreateBaseline
    \/ StartTrial
    \/ SimulateGame
    \/ RankTrial
    \/ Report

\* the whole script
Spec == Init /\ [][Next]_vars

\* ------------------------------------------------ claims on the aggregator

\* the game the last aggregation step read
LastGame == ended_games[Len(ended_games)]
Winner(g) == IF g.homeGoals > g.awayGoals THEN g.homeTeam ELSE g.awayTeam
Loser(g) == IF g.homeGoals > g.awayGoals THEN g.awayTeam ELSE g.homeTeam
\* the tags that carry an extended-play marker
ExtendedPlayTags ==
    {"ENDED_DURING_EXTENDED_GAME_TIME", "ENDED_DURING_WINNING_SHOT_COMPETITION",
     "OVERTIME"}

\* every team's points go up by `w` for the winner, `l` for the loser, 0 otherwise
PointsAwarded(g, w, l) ==
    \A t \in Teams :
        Get(points', t) = Get(points, t) + (IF t = Winner(g) THEN w
                                            ELSE IF t = Loser(g) THEN l ELSE 0)

BothCounted(g) ==
    /\ stats_games' = [stats_games EXCEPT ![g.homeTeam] = @ + 1, ![g.awayTeam] = @ + 1]
    /\ games_played' = [games_played EXCEPT ![g.homeTeam] = @ + 1, ![g.awayTeam] = @ + 1]

\* C4: a completed game whose goal counts differ counts one more completed game
\* for both teams and credits the team with more goals: without an extended-play
\* marker 3 points and a regulation win to the winner, 0 points and a regulation
\* loss to the loser; with a marker 2 points and an extended win to the winner,
\* 1 point and an extended loss to the loser; nothing else changes.
C4_DecidedGameCredited ==
    [][ended_games' # ended_games =>
        LET g == ended_games'[Len(ended_games')]
        IN  g.homeGoals # g.awayGoals =>
              /\ BothCounted(g)
              /\ IF g.finishedType \in ExtendedPlayTags
                 THEN /\ PointsAwarded(g, 2, 1)
                      /\ stats_ot_so_win' = [stats_ot_so_win EXCEPT ![Winner(g)] = @ + 1]
                      /\ stats_ot_so_loss' = [stats_ot_so_loss EXCEPT ![Loser(g)] = @ + 1]
                      /\ UNCHANGED <<stats_reg_win, stats_reg_loss>>
                 ELSE /\ PointsAwarded(g, 3, 0)
                      /\ stats_reg_win' = [stats_reg_win EXCEPT ![Winner(g)] = @ + 1]
                      /\ stats_reg_loss' = [stats_reg_loss EXCEPT ![Loser(g)] = @ + 1]
                      /\ UNCHANGED <<stats_ot_so_win, stats_ot_so_loss>>]_vars

\* C4's case: an away win by winning shots has been aggregated after another game
C4_Witness ==
    /\ Len(ended_games) = 2
    /\ LastGame.finishedType = "ENDED_DURING_WINNING_SHOT_COMPETITION"
    /\ LastGame.awayGoals > LastGame.homeGoals
    /\ stats_ot_so_win[LastGame.awayTeam] >= 1
    /\ stats_ot_so_loss[LastGame.homeTeam] >= 1
    /\ Get(points, LastGame.awayTeam) >= 2

\* C5: a completed game with equal goal counts and a regulation-class tag counts
\* one more completed game for both teams and changes no team's points,
\* regulation wins/losses or extended wins/losses.
C5_RegulationTieOnlyCounted ==
    [][ended_games' # ended_games =>
        LET g == ended_games'[Len(ended_games')]
        IN  (g.homeGoals = g.awayGoals /\ g.finishedType \notin ExtendedPlayTags) =>
              /\ BothCounted(g)
              /\ points' = points
              /\ UNCHANGED <<stats_reg_win, stats_reg_loss,
                             stats_ot_so_win, stats_ot_so_loss>>]_vars

\* C5's case: a regulation tie is the only game aggregated
C5_Witness ==
    /\ Len(ended_games) = 1
    /\ LastGame.homeGoals = LastGame.awayGoals
    /\ LastGame.finishedType = "ENDED_DURING_REGULAR_GAME_TIME"
    /\ stats_games[LastGame.homeTeam] = 1 /\ stats_games[LastGame.awayTeam] = 1
    /\ points = << >>

\* C9: whenever the aggregator credits a team with a win (regulation or
\* extended play), that team scored strictly more goals than its opponent.
C9_WinnerScoredMore ==
    [][ended_games' # ended_games =>
        LET g == ended_games'[Len(ended_games')]
        IN  \A t \in Teams :
              (\/ stats_reg_win'[t] > stats_reg_win[t]
               \/ stats_ot_so_win'[t] > stats_ot_so_win[t]) =>
                 \/ (t = g.homeTeam /\ g.homeGoals > g.awayGoals)
                 \/ (t = g.awayTeam /\ g.awayGoals > g.homeGoals)]_vars

\* the orderings of n list positions
Perms(n) == {f \in [1..n -> 1..n] : \A i, j \in 1..n : f[i] = f[j] => i = j}

\* C6: the aggregator is a commutative fold: every permutation of the completed
\* games gives the same per-team points and tallies, and the same ranking of the
\* standings computed from them.
C6_OrderIrrelevant ==
    \A f \in Perms(Len(ended_games)) :
        LET R == Aggregate([i \in 1..Len(ended_games) |-> ended_games[f[i]]])
        IN  /\ \A t \in Teams : Get(R.points, t) = Get(points, t)
            /\ R.games_played = games_played /\ R.stats_games = stats_games
            /\ R.stats_reg_win = stats_reg_win /\ R.stats_reg_loss = stats_reg_loss
            /\ R.stats_ot_so_win = stats_ot_so_win
            /\ R.stats_ot_so_loss = stats_ot_so_loss
            /\ FinalStanding(R.points) = FinalStanding(points)

\* ------------------------------------------ claims on the probability model

Sum4(P) == RAdd(RAdd(P[1], P[2]), RAdd(P[3], P[4]))
\* the sum of the two teams' regulation-win rates is below 1e-9
RegRatesVanish(home, away) ==
    LtEps(RAdd(get_team_stats(home)[1], get_team_stats(away)[1]))

\* C1: for every pair of teams and every tally table, match_probability returns
\* four values that are each non-negative and that sum to 1.
C1_DistributionSumsToOne ==
    \A m \in Matchups :
        LET P == match_probability(m[1], m[2])
        IN  /\ \A i \in 1..4 : P[i][1] >= 0 /\ P[i][2] > 0
            /\ Sum4(P) = One

\* C1's case: the sampler was called for a team without completed games against
\* a team that has played and has no regulation win
C1_Witness ==
    /\ pc = "sampled"
    /\ stats_games[home_team] = 0
    /\ stats_games[away_team] > 0 /\ stats_reg_win[away_team] = 0

\* C8: get_team_stats returns exactly (0.5, 0.5, 1) for a team with no completed
\* game and (regulation wins / g, extended wins / g, g) for a team with g > 0.
C8_TeamRates ==
    \A t \in Teams :
        LET r == get_team_stats(t)
            g == stats_games[t]
        IN  IF g = 0
            THEN r = <<(<<1, 2>>), (<<1, 2>>), 1>>
            ELSE /\ r[3] = g
                 /\ r[1][2] > 0 /\ r[1][1] * g = stats_reg_win[t] * r[1][2]
                 /\ r[2][2] > 0 /\ r[2][1] * g = stats_ot_so_win[t] * r[2][2]

\* C8's case: the sampler was called for a team that appears in no completed game
\* against a team with two completed games, one of them won in regulation
C8_Witness ==
    /\ pc = "sampled"
    /\ stats_games[away_team] = 0
    /\ stats_games[home_team] = 2 /\ stats_reg_win[home_team] = 1

\* the award of the interval that contains draw u, the intervals being contiguous
\* from 0 in the order P[1], P[2], P[3], P[4]
IntervalAward(P, u) ==
    LET c1 == P[1]
        c2 == RAdd(c1, P[2])
        c3 == RAdd(c2, P[3])
    IN  IF RLt(u, c1) THEN <<3, 0>>
        ELSE IF RLt(u, c2) THEN <<0, 3>>
        ELSE IF RLt(u, c3) THEN <<2, 1>>
        ELSE <<1, 2>>

C10_ExtendedOnlyInFallback ==
    /\ \A m \in Matchups :
         LET P == match_probability(m[1], m[2])
         IN  IF RegRatesVanish(m[1], m[2])
             THEN P[1] = <<3, 10>> /\ P[2] = <<3, 10>> /\ RAdd(P[3], P[4]) = <<2, 5>>
             ELSE P[3] = Zero /\ P[4] = Zero /\ RAdd(P[1], P[2]) = One
    /\ pc = "sampled" =>
         \/ <<hp, ap>> \in {<<3, 0>>, <<0, 3>>}
         \/ RegRatesVanish(home_team, away_team)

\* C10's case: two teams with completed games, one with an extended-play win and
\* one with a regulation win, sampled with the largest draw
C10_Witness ==
    /\ pc = "sampled"
    /\ stats_ot_so_win[home_team] > 0
    /\ stats_reg_win[away_team] > 0
    /\ ~RegRatesVanish(home_team, away_team)
    /\ x = Rat(XDen - 1, XDen)
    /\ <<hp, ap>> = <<0, 3>>

\* ------------------------------------------- claims on the Monte Carlo loop

\* C2: the Monte Carlo loop never changes the baseline: at every point of the
\* loop base_points is what it was created as, the points of the completed games,
\* and every trial starts on a copy equal to it whatever earlier trials did.
C2_BaselineIsolated ==
    pc \in {"trials", "games", "done"} =>
        /\ base_points = Aggregate(ended_games).points
        /\ (pc = "games" /\ gi = 1) => sim_points = base_points

\* C2's case: a later trial starts after an earlier one added awards to its copy
C2_Witness ==
    /\ pc = "games" /\ gi = 1 /\ trial >= 1
    /\ Len(future_games) >= 1
    /\ hp + ap = 3
    /\ Len(base_points) >= 1
    /\ sim_points = base_points

\* the teams of the completed games
Participants == {t \in Teams : stats_games[t] > 0}
\* the teams of the completed games with more baseline points than the target
StrictlyAbove ==
    {t \in Participants : Get(base_points, t) > Get(base_points, TPS_TEAMNAME)}
\* the other teams of the completed games with at least the target's baseline points
AtLeastLevel ==
    {t \in Participants \ {TPS_TEAMNAME} :
        Get(base_points, t) >= Get(base_points, TPS_TEAMNAME)}

\* C3: with no remaining game and a target that took part in a completed game, the
\* reported probability is exactly 1 when the target's rank among the teams of the
\* completed games, by baseline points descending, is within the cutoff, and
\* exactly 0 otherwise.  The claim leaves the order of teams level on points open;
\* it is stated here for the ranks that no order of level teams can change.
C3_NoRemainingGames ==
    (pc = "done" /\ future_games = << >> /\ TPS_TEAMNAME \in Participants) =>
        /\ prob_tps_in_top12 \in {Zero, One}
        /\ Cardinality(AtLeastLevel) + 1 <= PLAYOFFS_CUTOFF => prob_tps_in_top12 = One
        /\ Cardinality(StrictlyAbove) + 1 > PLAYOFFS_CUTOFF => prob_tps_in_top12 = Zero

====
